---------------------------- MODULE Spec2Model ----------------------------
(***************************************************************************)
(* dnsToy: a caching DNS proxy (src/cmd/dnsToy/main.go) over the SQLite    *)
(* table "resolutions" (package dbfunc, src/unnamed/part_002).             *)
(*                                                                         *)
(* The model has one state machine per request handler (the function       *)
(* literal installed as dnsServer.Handler), the operator console           *)
(* (handleUserInput) and the shared state they touch: the package level    *)
(* flag enableDNSLookup and the rows of the table.  Every read or write of *)
(* shared state and every network exchange is one step; the code between   *)
(* two such points is folded into the step that precedes it.               *)
(*                                                                         *)
(* Spec serves the requests one after the other, SpecConcurrent serves two *)
(* at a time, SpecFaults adds storage errors, and SpecIncr runs the table  *)
(* function existsInDatabaseIncrementCount, which main.go does not call,   *)
(* from callers of its own.                                                *)
(*                                                                         *)
(* Texts (domain names, textual addresses) are sequences of one-character  *)
(* strings, addresses are sequences of bytes, so that strings.ToLower,     *)
(* net.IP.String and net.ParseIP are computed rather than assumed.         *)
(*                                                                         *)
(* enableDNSLookup is a plain bool shared without synchronisation.  A read *)
(* returns the value of the latest write (the behaviour of the compiled    *)
(* program on cache-coherent hardware); which of two racing accesses comes *)
(* first is decided by the interleaving.                                   *)
(***************************************************************************)
EXTENDS Integers, Sequences, FiniteSets, TLC

(***************************************************************************)
(* Bounds of the model.                                                    *)
(***************************************************************************)
MaxRequests == 2        \* requests received over a run
MaxQuestions == 2       \* questions in one request
MaxAnswers == 1         \* answer records in one upstream response
MaxFaults == 1          \* storage errors injected over a run
MaxCalls == 3           \* direct calls of the store's operations

(***************************************************************************)
(* Program constants.                                                      *)
(***************************************************************************)
AnswerTTL == 60         \* Ttl of every answer record the program builds

(***************************************************************************)
(* Texts.                                                                  *)
(***************************************************************************)
Digits == <<"0", "1", "2", "3", "4", "5", "6", "7", "8", "9">>

UpperLetters == <<"E", "X", "N">>

LowerLetters == <<"e", "x", "n">>

IsDigit(c) == \E d \in 1..10 : Digits[d] = c

DigitVal(c) == (CHOOSE d \in 1..10 : Digits[d] = c) - 1

\* unicode.ToLower on one character
ToLowerChar(c) ==
    IF \E i \in 1..Len(UpperLetters) : UpperLetters[i] = c
    THEN LowerLetters[CHOOSE i \in 1..Len(UpperLetters) : UpperLetters[i] = c]
    ELSE c

\* strings.ToLower
ToLower(s) == [i \in 1..Len(s) |-> ToLowerChar(s[i])]

\* strconv.Itoa for a byte
RECURSIVE Itoa(_)
Itoa(n) ==
    IF n < 10 THEN <<Digits[n + 1]>>
    ELSE Itoa(n \div 10) \o <<Digits[(n % 10) + 1]>>

\* decimal value of a sequence of digits
RECURSIVE Atoi(_)
Atoi(f) ==
    IF Len(f) = 0 THEN 0
    ELSE 10 * Atoi(SubSeq(f, 1, Len(f) - 1)) + DigitVal(f[Len(f)])

\* strings.Split(s, "."): the fields of s between dots
RECURSIVE SplitDot(_)
SplitDot(s) ==
    IF \A i \in 1..Len(s) : s[i] # "."
    THEN <<s>>
    ELSE LET k == CHOOSE i \in 1..Len(s) :
                    s[i] = "." /\ \A j \in 1..(i - 1) : s[j] # "."
         IN <<SubSeq(s, 1, k - 1)>> \o SplitDot(SubSeq(s, k + 1, Len(s)))

(***************************************************************************)
(* Addresses: net.IP is a byte slice, NilIP the nil slice.                 *)
(***************************************************************************)
NilIP == <<>>

NilText == <<"<", "n", "i", "l", ">">>

\* net.IP.String: "<nil>" for the empty slice, dotted decimal for IPv4
IPString(ip) ==
    IF Len(ip) = 0 THEN NilText
    ELSE Itoa(ip[1]) \o <<".">> \o Itoa(ip[2]) \o <<".">>
         \o Itoa(ip[3]) \o <<".">> \o Itoa(ip[4])

\* one field of a dotted-decimal literal: 1 to 3 digits, no leading zero,
\* at most 255
ValidOctet(f) ==
    /\ Len(f) \in 1..3
    /\ \A i \in 1..Len(f) : IsDigit(f[i])
    /\ (Len(f) > 1 => f[1] # "0")
    /\ Atoi(f) <= 255

\* net.ParseIP restricted to the IPv4 form: NilIP when s is no IP literal
ParseIP(s) ==
    LET f == SplitDot(s)
    IN IF Len(f) = 4 /\ \A i \in 1..4 : ValidOctet(f[i])
       THEN [i \in 1..4 |-> Atoi(f[i])]
       ELSE NilIP


(***************************************************************************)
(* The inputs the environment can supply.                                  *)
(***************************************************************************)
Handlers == {"h1", "h2"}

\* the goroutines that call existsInDatabaseIncrementCount directly
Callers == {"c1", "c2"}

\* the handlers that run when requests arrive one after the other
Serial == {"h1"}

\* question names as they arrive on the wire: two spellings of one name
Names == {<<"e", "x", ".">>, <<"E", "x", ".">>}

QTypes == {"A", "MX"}

\* the questions asked: an address question for either spelling and a
\* question of another type
Questions ==
    {q \in [Name : Names, Qtype : QTypes] :
        q.Qtype = "A" \/ q.Name = ToLower(q.Name)}

IPs == {<<93, 184, 216, 34>>, <<10, 0, 0, 1>>}

SeqsUpTo(S, n) == UNION {[1..k -> S] : k \in 0..n}

\* answer records of a response to the forward (A) query; an A record
\* without rdata unpacks with a nil address
ForwardRRs ==
    {[Rrtype |-> "CNAME", A |-> NilIP]}
    \cup {[Rrtype |-> "A", A |-> ip] : ip \in IPs \cup {NilIP}}

\* answer records of a response to the PTR query: PTR records
ReverseRRs == {[Rrtype |-> "PTR", A |-> NilIP]}

ForwardAnswers == SeqsUpTo(ForwardRRs, MaxAnswers)

ReverseAnswers == SeqsUpTo(ReverseRRs, MaxAnswers)

RequestQuestions == SeqsUpTo(Questions, MaxQuestions)

\* requests of one address question, as resolvers send them
SingleQuestions == {<<q>> : q \in {r \in Questions : r.Qtype = "A"}}

(***************************************************************************)
(* State.                                                                  *)
(***************************************************************************)
VARIABLES
    enableDNSLookup,  \* the package-level flag
    resolutions,      \* rows of the table, in insertion order
    procState,        \* "running", "fatal" (log.Fatalf) or "exited" (os.Exit)
    pc,               \* per handler: where it stands
    request,          \* per handler: the request message
    response,         \* per handler: the reply being built
    qi,               \* per handler: index of the question in the loop
    respPtr,          \* per handler: answers of the PTR response
    ipAddress,        \* per handler: address text DnsLookup returned
    sent,             \* per handler: the replies written with WriteMsg
    qlog,             \* history: per handler, what its latest question did
    resolved,         \* history: first stored resolution per lower-cased name
    phase,            \* history: 0 at first, 1 disabled, 2 enabled again
    nReq,             \* history: requests received so far
    faults,           \* history: storage errors injected so far
    calls,            \* per caller: its call of existsInDatabaseIncrementCount
    nCalls            \* history: calls begun so far

vars == <<enableDNSLookup, resolutions, procState, pc, request, response, qi,
          respPtr, ipAddress, sent, qlog, resolved, phase, nReq, faults,
          calls, nCalls>>

shared == <<enableDNSLookup, resolutions, procState>>

\* the state of the direct callers of the table functions
incr == <<calls, nCalls>>

NoMsg == [Id |-> 0, Response |-> FALSE, Question |-> <<>>, Answer |-> <<>>]

(***************************************************************************)
(* The table "resolutions" (domain TEXT PRIMARY KEY, ip TEXT,              *)
(* query_count INTEGER DEFAULT 0).  The key compares byte for byte.        *)
(***************************************************************************)
HasRow(rows, domain) == \E i \in 1..Len(rows) : rows[i].domain = domain

RowOf(rows, domain) ==
    rows[CHOOSE i \in 1..Len(rows) : rows[i].domain = domain]

\* SELECT ip FROM resolutions WHERE domain=?  ; a storage error is logged
\* and reported as not found
GetFromDatabase(rows, domain, fail) ==
    IF fail \/ ~HasRow(rows, domain)
    THEN [ip |-> <<>>, found |-> FALSE]
    ELSE [ip |-> RowOf(rows, domain).ip, found |-> TRUE]

\* an insert that replaces the row of an existing domain
AddToDatabaseReplace(rows, domain, ip, fail) ==
    IF fail THEN [rows |-> rows, err |-> "storage"]
    ELSE IF HasRow(rows, domain)
    THEN [rows |-> [i \in 1..Len(rows) |->
                       IF rows[i].domain = domain
                       THEN [domain |-> domain, ip |-> ip, query_count |-> 0]
                       ELSE rows[i]],
          err |-> "nil"]
    ELSE [rows |-> Append(rows, [domain |-> domain, ip |-> ip,
                                 query_count |-> 0]),
          err |-> "nil"]

\* INSERT INTO resolutions(domain, ip) VALUES(?, ?)
AddToDatabase(rows, domain, ip, fail) ==
    IF fail THEN [rows |-> rows, err |-> "storage"]
    ELSE IF HasRow(rows, domain) THEN [rows |-> rows, err |-> "duplicate"]
    ELSE [rows |-> Append(rows, [domain |-> domain, ip |-> ip,
                                 query_count |-> 0]),
          err |-> "nil"]

\* a dump that consumes the rows it prints
DumpDatabaseDrains(rows) == <<>>

\* SELECT domain, ip, query_count FROM resolutions : reads, writes nothing
DumpDatabase(rows) == rows

\* existsInDatabaseIncrementCount, first statement:
\* SELECT query_count FROM resolutions WHERE domain=?  (sql.ErrNoRows or not)
ExistsSelect(rows, domain) ==
    IF HasRow(rows, domain) THEN "present" ELSE "absent"

\* an INSERT that starts the count at one
ExistsInsertOne(rows, domain, ip) ==
    IF HasRow(rows, domain)
    THEN [rows |-> rows, existed |-> FALSE, err |-> "duplicate"]
    ELSE [rows |-> Append(rows, [domain |-> domain, ip |-> IPString(ip),
                                 query_count |-> 1]),
          existed |-> FALSE, err |-> "nil"]

\* existsInDatabaseIncrementCount after sql.ErrNoRows:
\* INSERT INTO resolutions(domain, ip, query_count) VALUES(?, ?, 0)
ExistsInsert(rows, domain, ip) ==
    IF HasRow(rows, domain)
    THEN [rows |-> rows, existed |-> FALSE, err |-> "duplicate"]
    ELSE [rows |-> Append(rows, [domain |-> domain, ip |-> IPString(ip),
                                 query_count |-> 0]),
          existed |-> FALSE, err |-> "nil"]

\* an UPDATE that changes no row
ExistsUpdateNone(rows, domain) ==
    [rows |-> rows, existed |-> TRUE, err |-> "nil"]

\* existsInDatabaseIncrementCount after a row was read:
\* UPDATE resolutions SET query_count=query_count+1 WHERE domain=?
ExistsUpdate(rows, domain) ==
    [rows |-> [i \in 1..Len(rows) |->
                  IF rows[i].domain = domain
                  THEN [rows[i] EXCEPT !.query_count = @ + 1]
                  ELSE rows[i]],
     existed |-> TRUE, err |-> "nil"]

(***************************************************************************)
(* Messages.                                                               *)
(***************************************************************************)
\* dns.Msg.SetReply: same Id, reply flag set, the first question copied,
\* no answers
SetReply(req) ==
    [Id |-> req.Id, Response |-> TRUE,
     Question |-> IF Len(req.Question) > 0 THEN <<req.Question[1]>> ELSE <<>>,
     Answer |-> <<>>]

\* dns.A{Hdr: dns.RR_Header{Name, TypeA, ClassINET, Ttl: 60}, A: ip}
AnswerRecord(name, ip) ==
    [Name |-> name, Rrtype |-> "A", Class |-> "IN", Ttl |-> AnswerTTL,
     A |-> ip]

\* a cache read that answers without the test of ParseIP's result
CachedAnswerUnchecked(name, text) == <<AnswerRecord(name, ParseIP(text))>>

\* the branch shared by both cache reads: an answer only for a row whose
\* text parses
CachedAnswer(name, text) ==
    IF ParseIP(text) # NilIP THEN <<AnswerRecord(name, ParseIP(text))>>
    ELSE <<>>

(***************************************************************************)
(* DnsLookup after both exchanges succeeded.                               *)
(***************************************************************************)
IsA(rr) == rr.Rrtype = "A"

\* first loop: the first A record of the forward response
FirstA(ans) ==
    IF \E i \in 1..Len(ans) : IsA(ans[i])
    THEN <<ans[CHOOSE i \in 1..Len(ans) :
                 IsA(ans[i]) /\ \A j \in 1..(i - 1) : ~IsA(ans[j])]>>
    ELSE <<>>

\* second loop: the A records of the PTR response up to and including the
\* first one with a non-empty address
RECURSIVE PtrARecords(_)
PtrARecords(ans) ==
    IF Len(ans) = 0 THEN <<>>
    ELSE IF ~IsA(ans[1]) THEN PtrARecords(Tail(ans))
    ELSE IF Len(ans[1].A) > 0 THEN <<ans[1]>>
    ELSE <<ans[1]>> \o PtrARecords(Tail(ans))

\* the records DnsLookup appends to the message it was handed
LookupAppended(domain, ptrAns, fwdAns) ==
    [i \in 1..Len(FirstA(fwdAns) \o PtrARecords(ptrAns)) |->
        AnswerRecord(domain, (FirstA(fwdAns) \o PtrARecords(ptrAns))[i].A)]

\* the text DnsLookup returns; empty means the error "No IP address returned"
LookupAddress(fwdAns) ==
    IF FirstA(fwdAns) = <<>> THEN <<>> ELSE IPString(FirstA(fwdAns)[1].A)

\* the message DnsLookup appends to: the handler hands it the request
LookupTarget == "request"

(***************************************************************************)
(* History bookkeeping.                                                    *)
(***************************************************************************)
\* whether a resolution of the name, in any spelling, was stored before
Known(res, name) == \E r \in res : r.name = ToLower(name)

FirstIP(res, name) ==
    IF Known(res, name) THEN (CHOOSE r \in res : r.name = ToLower(name)).ip
    ELSE <<>>

FirstSpelling(res, name) ==
    IF Known(res, name)
    THEN (CHOOSE r \in res : r.name = ToLower(name)).spelled
    ELSE <<>>

\* query_count of the row of a domain, 0 without a row
CountOf(rows, domain) ==
    IF HasRow(rows, domain) THEN RowOf(rows, domain).query_count ELSE 0

NoLog ==
    [name |-> <<>>, qtype |-> "-", flag1 |-> FALSE, get1 |-> "-",
     ptr |-> "-", fwd |-> "-", ip |-> <<>>, put |-> "-", flag2 |-> "-",
     get2 |-> "-", from |-> 0, to |-> 0, empty |-> FALSE,
     incache |-> FALSE, cached |-> <<>>, count |-> 0, known |-> FALSE,
     first |-> <<>>, spelled |-> <<>>, phase |-> 0, done |-> FALSE]

\* the log of a question as the loop reaches it: what it asks, the flag
\* read, and what the table and the history hold at that moment
NewLog(h, flag) ==
    LET q == request[h].Question[qi[h]]
    IN [NoLog EXCEPT
          !.name = q.Name, !.qtype = q.Qtype, !.flag1 = flag,
          !.from = Len(response[h].Answer), !.to = Len(response[h].Answer),
          !.empty = (Len(resolutions) = 0),
          !.incache = HasRow(resolutions, ToLower(q.Name)),
          !.cached = GetFromDatabase(resolutions, ToLower(q.Name), FALSE).ip,
          !.count = CountOf(resolutions, ToLower(q.Name)),
          !.known = Known(resolved, q.Name),
          !.first = FirstIP(resolved, q.Name),
          !.spelled = FirstSpelling(resolved, q.Name),
          !.phase = phase]

\* the current question ends: the loop moves on
Finish(h, log) ==
    /\ qlog' = [qlog EXCEPT ![h] =
                  [log EXCEPT !.done = TRUE,
                              !.to = Len(response'[h].Answer)]]
    /\ resolved' =
         IF log.fwd = "ok" /\ log.put = "nil" /\ ~Known(resolved, log.name)
         THEN resolved \cup {[name |-> ToLower(log.name), ip |-> log.ip,
                                spelled |-> log.name]}
         ELSE resolved
    /\ qi' = [qi EXCEPT ![h] = @ + 1]
    /\ pc' = [pc EXCEPT ![h] = "loop"]

\* a caller outside existsInDatabaseIncrementCount
NoCall ==
    [pc |-> "idle", domain |-> <<>>, ip |-> NilIP, seen |-> "-",
     existed |-> FALSE, err |-> "-", before |-> <<>>, after |-> <<>>,
     solo |-> FALSE]

(***************************************************************************)
(* Initial state: a fresh table, lookups enabled, no request in flight.    *)
(***************************************************************************)
Idle ==
    /\ pc = [h \in Handlers |-> "idle"]
    /\ request = [h \in Handlers |-> NoMsg]
    /\ response = [h \in Handlers |-> NoMsg]
    /\ qi = [h \in Handlers |-> 0]
    /\ respPtr = [h \in Handlers |-> <<>>]
    /\ ipAddress = [h \in Handlers |-> <<>>]
    /\ sent = [h \in Handlers |-> <<>>]

Init ==
    /\ enableDNSLookup = TRUE
    /\ resolutions = <<>>
    /\ procState = "running"
    /\ Idle
    /\ qlog = [h \in Handlers |-> NoLog]
    /\ resolved = {}
    /\ phase = 0
    /\ nReq = 0
    /\ faults = 0
    /\ calls = [c \in Callers |-> NoCall]
    /\ nCalls = 0

\* the process ends (os.Exit): every goroutine goes with it, the table
\* stays on disk
Terminate(how) ==
    /\ procState' = how
    /\ pc' = [h \in Handlers |-> "idle"]
    /\ request' = [h \in Handlers |-> NoMsg]
    /\ response' = [h \in Handlers |-> NoMsg]
    /\ qi' = [h \in Handlers |-> 0]
    /\ respPtr' = [h \in Handlers |-> <<>>]
    /\ ipAddress' = [h \in Handlers |-> <<>>]
    /\ sent' = [h \in Handlers |-> <<>>]
    /\ UNCHANGED <<enableDNSLookup, resolutions, resolved, phase, nReq, faults,
                   incr>>

(***************************************************************************)
(* The request handler.                                                    *)
(***************************************************************************)
Question(h) == request[h].Question[qi[h]]

\* a handler that takes lookups to be enabled whatever the console did
ReadFlagStuck == TRUE

\* a handler that reads the flag the wrong way round
ReadFlagInverted == ~enableDNSLookup

\* one read of the flag by a handler
ReadFlag == enableDNSLookup

\* the type test that opens the enabled branch
SkipEnabled(q) == q.Qtype # "A"

\* a disabled branch without its type test
SkipDisabledNever(q) == FALSE

\* the type test that opens the disabled branch
SkipDisabled(q) == q.Qtype # "A"

\* a lookup by the name as spelled in the question
LookupKeyRaw(name) == name

\* the key handed to GetFromDatabase
LookupKey(name) == ToLower(name)

\* the key handed to AddToDatabase
StoreKey(name) == name

\* a datagram arrives: response := new(dns.Msg); response.SetReply(request)
Receive(h, qs) ==
    /\ procState = "running"
    /\ pc[h] = "idle"
    /\ nReq < MaxRequests
    /\ nReq' = nReq + 1
    /\ request' = [request EXCEPT ![h] =
                     [Id |-> nReq + 1, Response |-> FALSE, Question |-> qs,
                      Answer |-> <<>>]]
    /\ response' = [response EXCEPT ![h] = SetReply(request'[h])]
    /\ qi' = [qi EXCEPT ![h] = 1]
    /\ pc' = [pc EXCEPT ![h] = "loop"]
    /\ qlog' = [qlog EXCEPT ![h] = NoLog]
    /\ UNCHANGED <<shared, incr, respPtr, ipAddress, sent, resolved, phase,
                   faults>>

\* top of the loop body: if enableDNSLookup { if Qtype != TypeA continue ...
ReadFlag1(h) ==
    /\ procState = "running"
    /\ pc[h] = "loop"
    /\ qi[h] <= Len(request[h].Question)
    /\ LET flag == ReadFlag
           log == NewLog(h, flag)
       IN IF flag /\ SkipEnabled(Question(h))
          THEN /\ UNCHANGED response
               /\ Finish(h, log)
          ELSE /\ qlog' = [qlog EXCEPT ![h] = log]
               /\ pc' = [pc EXCEPT ![h] = IF flag THEN "get1" ELSE "flag2"]
               /\ UNCHANGED <<response, qi, resolved>>
    /\ UNCHANGED <<shared, incr, request, respPtr, ipAddress, sent, phase,
                   nReq, faults>>

\* enabled branch: GetFromDatabase(database, strings.ToLower(question.Name))
Get1(h, fail) ==
    /\ procState = "running"
    /\ fail => faults < MaxFaults
    /\ faults' = IF fail THEN faults + 1 ELSE faults
    /\ pc[h] = "get1"
    /\ LET got == GetFromDatabase(resolutions,
                                  LookupKey(Question(h).Name), fail)
       IN /\ response' = [response EXCEPT ![h].Answer =
                            IF got.found
                            THEN @ \o CachedAnswer(Question(h).Name, got.ip)
                            ELSE @]
          /\ qlog' = [qlog EXCEPT ![h].get1 =
                        IF fail THEN "err" ELSE IF got.found THEN "hit"
                        ELSE "miss"]
          /\ pc' = [pc EXCEPT ![h] = IF got.found THEN "flag2" ELSE "ptr"]
    /\ UNCHANGED <<shared, incr, request, qi, respPtr, ipAddress, sent,
                   resolved, phase, nReq>>

\* DnsLookup: c.Exchange(mPtr, server); on an error log.Fatalf
PtrExchange(h, ok, ans) ==
    /\ procState = "running"
    /\ pc[h] = "ptr"
    /\ IF ok
       THEN /\ respPtr' = [respPtr EXCEPT ![h] = ans]
            /\ qlog' = [qlog EXCEPT ![h].ptr = "ok"]
            /\ pc' = [pc EXCEPT ![h] = "fwd"]
            /\ UNCHANGED <<shared, incr, request, response, qi, ipAddress,
                           sent, resolved, phase, nReq, faults>>
       ELSE /\ Terminate("fatal")
            /\ qlog' = [qlog EXCEPT ![h].ptr = "err"]

\* a lookup that starts over when the response holds no address
FwdExchangeRetries(h, ok, ans) ==
    /\ procState = "running"
    /\ pc[h] = "fwd"
    /\ IF ok
       THEN LET ip == LookupAddress(ans)
            IN /\ ipAddress' = [ipAddress EXCEPT ![h] = ip]
               /\ qlog' = [qlog EXCEPT ![h].fwd =
                             IF Len(ip) = 0 THEN "none" ELSE "ok",
                                       ![h].ip = ip]
               /\ pc' = [pc EXCEPT ![h] =
                           IF Len(ip) = 0 THEN "ptr" ELSE "put"]
               /\ respPtr' = [respPtr EXCEPT ![h] = <<>>]
               /\ UNCHANGED <<shared, incr, request, response, qi, sent,
                              resolved, phase, nReq, faults>>
       ELSE /\ Terminate("fatal")
            /\ qlog' = [qlog EXCEPT ![h].fwd = "err"]

\* DnsLookup: c.Exchange(mA, server) (on an error log.Fatalf), the two
\* loops and the return
FwdExchange(h, ok, ans) ==
    /\ procState = "running"
    /\ pc[h] = "fwd"
    /\ IF ok
       THEN LET name == Question(h).Name
                added == LookupAppended(name, respPtr[h], ans)
                ip == LookupAddress(ans)
            IN /\ request' = [request EXCEPT ![h].Answer =
                                IF LookupTarget = "request" THEN @ \o added
                                ELSE @]
               /\ response' = [response EXCEPT ![h].Answer =
                                 IF LookupTarget = "response" THEN @ \o added
                                 ELSE @]
               /\ ipAddress' = [ipAddress EXCEPT ![h] = ip]
               /\ qlog' = [qlog EXCEPT ![h].fwd =
                             IF Len(ip) = 0 THEN "none" ELSE "ok",
                                       ![h].ip = ip]
               /\ pc' = [pc EXCEPT ![h] =
                           IF Len(ip) = 0 THEN "flag2" ELSE "put"]
               /\ respPtr' = [respPtr EXCEPT ![h] = <<>>]
               /\ UNCHANGED <<shared, incr, qi, sent, resolved, phase, nReq,
                              faults>>
       ELSE /\ Terminate("fatal")
            /\ qlog' = [qlog EXCEPT ![h].fwd = "err"]

\* dbfunc.AddToDatabase(database, question.Name, IP); an error is logged
Put(h, fail) ==
    /\ procState = "running"
    /\ fail => faults < MaxFaults
    /\ faults' = IF fail THEN faults + 1 ELSE faults
    /\ pc[h] = "put"
    /\ LET res == AddToDatabase(resolutions, StoreKey(Question(h).Name),
                                ipAddress[h], fail)
       IN /\ resolutions' = res.rows
          /\ qlog' = [qlog EXCEPT ![h].put = res.err]
    /\ ipAddress' = [ipAddress EXCEPT ![h] = <<>>]
    /\ pc' = [pc EXCEPT ![h] = "flag2"]
    /\ UNCHANGED <<enableDNSLookup, procState, request, response, qi, respPtr,
                   sent, resolved, phase, nReq, incr>>

\* if !enableDNSLookup { if Qtype != TypeA continue ...
ReadFlag2(h) ==
    /\ procState = "running"
    /\ pc[h] = "flag2"
    /\ LET flag == ReadFlag
           log == [qlog[h] EXCEPT !.flag2 = IF flag THEN "T" ELSE "F"]
       IN IF flag \/ SkipDisabled(Question(h))
          THEN /\ UNCHANGED response
               /\ Finish(h, log)
          ELSE /\ qlog' = [qlog EXCEPT ![h] = log]
               /\ pc' = [pc EXCEPT ![h] = "get2"]
               /\ UNCHANGED <<response, qi, resolved>>
    /\ UNCHANGED <<shared, incr, request, respPtr, ipAddress, sent, phase,
                   nReq, faults>>

\* disabled branch: GetFromDatabase(database, strings.ToLower(question.Name))
Get2(h, fail) ==
    /\ procState = "running"
    /\ fail => faults < MaxFaults
    /\ faults' = IF fail THEN faults + 1 ELSE faults
    /\ pc[h] = "get2"
    /\ LET got == GetFromDatabase(resolutions,
                                  LookupKey(Question(h).Name), fail)
           log == [qlog[h] EXCEPT !.get2 =
                     IF fail THEN "err" ELSE IF got.found THEN "hit"
                     ELSE "miss"]
       IN /\ response' = [response EXCEPT ![h].Answer =
                            IF got.found
                            THEN @ \o CachedAnswer(Question(h).Name, got.ip)
                            ELSE @]
          /\ Finish(h, log)
    /\ UNCHANGED <<shared, incr, request, respPtr, ipAddress, sent, phase,
                   nReq>>

\* a handler that switches lookups back on once it has replied
WriteMsgEnables(h) ==
    /\ procState = "running"
    /\ pc[h] = "loop"
    /\ qi[h] > Len(request[h].Question)
    /\ sent' = [sent EXCEPT ![h] = Append(@, response[h])]
    /\ pc' = [pc EXCEPT ![h] = "done"]
    /\ enableDNSLookup' = TRUE
    /\ UNCHANGED <<resolutions, procState, incr, request, response, qi,
                   respPtr, ipAddress, qlog, resolved, phase, nReq, faults>>

\* after the loop: writer.WriteMsg(response); an error is logged
WriteMsg(h) ==
    /\ procState = "running"
    /\ pc[h] = "loop"
    /\ qi[h] > Len(request[h].Question)
    /\ sent' = [sent EXCEPT ![h] = Append(@, response[h])]
    /\ pc' = [pc EXCEPT ![h] = "done"]
    /\ UNCHANGED <<shared, incr, request, response, qi, respPtr, ipAddress,
                   qlog, resolved, phase, nReq, faults>>

\* the handler returns; its goroutine ends
Return(h) ==
    /\ procState = "running"
    /\ pc[h] = "done"
    /\ pc' = [pc EXCEPT ![h] = "idle"]
    /\ request' = [request EXCEPT ![h] = NoMsg]
    /\ response' = [response EXCEPT ![h] = NoMsg]
    /\ qi' = [qi EXCEPT ![h] = 0]
    /\ sent' = [sent EXCEPT ![h] = <<>>]
    /\ qlog' = [qlog EXCEPT ![h] = NoLog]
    /\ UNCHANGED <<shared, incr, respPtr, ipAddress, resolved, phase, nReq,
                   faults>>

(***************************************************************************)
(* The operator console (handleUserInput).                                 *)
(***************************************************************************)
handler == <<pc, request, response, qi, respPtr, ipAddress, sent, qlog,
             resolved, nReq, faults>>

\* a dump that waits while a handler is inside DnsLookup
ConsoleDumpLocked ==
    /\ procState = "running"
    /\ \A h \in Handlers : pc[h] \notin {"ptr", "fwd"}
    /\ resolutions' = DumpDatabase(resolutions)
    /\ UNCHANGED <<enableDNSLookup, procState, handler, phase, incr>>

ConsoleDump ==
    /\ procState = "running"
    /\ resolutions' = DumpDatabase(resolutions)
    /\ UNCHANGED <<enableDNSLookup, procState, handler, phase, incr>>

\* a disable that flips the flag
ConsoleDisableToggles ==
    /\ procState = "running"
    /\ enableDNSLookup' = ~enableDNSLookup
    /\ phase' = 1
    /\ UNCHANGED <<resolutions, procState, handler, incr>>

ConsoleDisable ==
    /\ procState = "running"
    /\ enableDNSLookup' = FALSE
    /\ phase' = 1
    /\ UNCHANGED <<resolutions, procState, handler, incr>>

ConsoleEnable ==
    /\ procState = "running"
    /\ enableDNSLookup' = TRUE
    /\ phase' = IF phase = 0 THEN 0 ELSE 2
    /\ UNCHANGED <<resolutions, procState, handler, incr>>

ConsoleExit ==
    /\ procState = "running"
    /\ Terminate("exited")
    /\ qlog' = [h \in Handlers |-> NoLog]

ConsoleInvalid ==
    /\ procState = "running"
    /\ UNCHANGED vars

(***************************************************************************)
(* Direct calls of existsInDatabaseIncrementCount(db, domain, ip): the     *)
(* SELECT is one step, the INSERT or UPDATE that follows it another.       *)
(***************************************************************************)
main == <<enableDNSLookup, procState, handler, phase>>

\* the call begins and its SELECT runs
IncrSelect(c, domain, ip) ==
    /\ procState = "running"
    /\ calls[c].pc = "idle"
    /\ nCalls < MaxCalls
    /\ nCalls' = nCalls + 1
    /\ calls' = [calls EXCEPT ![c] =
                   [NoCall EXCEPT !.pc = "selected", !.domain = domain,
                                  !.ip = ip,
                                  !.seen = ExistsSelect(resolutions, domain),
                                  !.before = resolutions, !.solo = TRUE]]
    /\ UNCHANGED <<main, resolutions>>

\* the INSERT or the UPDATE runs and the call returns
IncrWrite(c) ==
    /\ procState = "running"
    /\ calls[c].pc = "selected"
    /\ LET res == IF calls[c].seen = "absent"
                  THEN ExistsInsert(resolutions, calls[c].domain, calls[c].ip)
                  ELSE ExistsUpdate(resolutions, calls[c].domain)
       IN /\ resolutions' = res.rows
          /\ calls' = [d \in Callers |->
                IF d = c
                THEN [calls[c] EXCEPT !.pc = "returned",
                                      !.existed = res.existed,
                                      !.err = res.err, !.after = res.rows]
                ELSE IF calls[d].pc = "selected"
                THEN [calls[d] EXCEPT !.solo = FALSE]
                ELSE calls[d]]
    /\ UNCHANGED <<main, nCalls>>

\* a call of addToDatabase(db, domain, ip): one INSERT
StorePut(c, domain, ip) ==
    /\ procState = "running"
    /\ calls[c].pc = "idle"
    /\ nCalls < MaxCalls
    /\ nCalls' = nCalls + 1
    /\ resolutions' =
          AddToDatabase(resolutions, domain, IPString(ip), FALSE).rows
    /\ calls' = [d \in Callers |->
                   IF calls[d].pc = "selected"
                   THEN [calls[d] EXCEPT !.solo = FALSE]
                   ELSE calls[d]]
    /\ UNCHANGED main

\* the caller has used the result
IncrReturn(c) ==
    /\ procState = "running"
    /\ calls[c].pc = "returned"
    /\ calls' = [calls EXCEPT ![c] = NoCall]
    /\ UNCHANGED <<main, resolutions, nCalls>>

(***************************************************************************)
(* The specification.                                                      *)
(***************************************************************************)
Next ==
    \/ \E h \in Serial, qs \in RequestQuestions : Receive(h, qs)
    \/ \E h \in Serial : ReadFlag1(h)
    \/ \E h \in Serial : Get1(h, FALSE)
    \/ \E h \in Serial, ok \in BOOLEAN, ans \in ReverseAnswers :
          PtrExchange(h, ok, ans)
    \/ \E h \in Serial, ok \in BOOLEAN, ans \in ForwardAnswers :
          FwdExchange(h, ok, ans)
    \/ \E h \in Serial : Put(h, FALSE)
    \/ \E h \in Serial : ReadFlag2(h)
    \/ \E h \in Serial : Get2(h, FALSE)
    \/ \E h \in Serial : WriteMsg(h)
    \/ \E h \in Serial : Return(h)
    \/ ConsoleDump
    \/ ConsoleDisable
    \/ ConsoleEnable
    \/ ConsoleExit
    \/ ConsoleInvalid

\* the same steps with a storage error (SQLite reports one, for instance
\* when the file is locked)
StorageFault ==
    \/ \E h \in Serial : Get1(h, TRUE)
    \/ \E h \in Serial : Put(h, TRUE)
    \/ \E h \in Serial : Get2(h, TRUE)

NextFaults == Next \/ StorageFault

\* requests handled one at a time, the console running beside them
Spec == Init /\ [][Next]_vars

\* the same with storage errors
SpecFaults == Init /\ [][NextFaults]_vars

\* requests of one address question each, every request served by its own
\* goroutine, so that two handlers run side by side
NextConcurrent ==
    \/ \E h \in Handlers, qs \in SingleQuestions : Receive(h, qs)
    \/ \E h \in Handlers : ReadFlag1(h)
    \/ \E h \in Handlers : Get1(h, FALSE)
    \/ \E h \in Handlers, ok \in BOOLEAN, ans \in ReverseAnswers :
          PtrExchange(h, ok, ans)
    \/ \E h \in Handlers, ok \in BOOLEAN, ans \in ForwardAnswers :
          FwdExchange(h, ok, ans)
    \/ \E h \in Handlers : Put(h, FALSE)
    \/ \E h \in Handlers : ReadFlag2(h)
    \/ \E h \in Handlers : Get2(h, FALSE)
    \/ \E h \in Handlers : WriteMsg(h)
    \/ \E h \in Handlers : Return(h)
    \/ ConsoleDisable
    \/ ConsoleEnable

SpecConcurrent == Init /\ [][NextConcurrent]_vars

\* callers of existsInDatabaseIncrementCount and of addToDatabase, alone on
\* the table
NextIncr ==
    \/ \E c \in Callers, d \in Names, ip \in IPs \cup {NilIP} :
          IncrSelect(c, d, ip)
    \/ \E c \in Callers : IncrWrite(c)
    \/ \E c \in Callers, d \in Names, ip \in IPs \cup {NilIP} :
          StorePut(c, d, ip)
    \/ \E c \in Callers : IncrReturn(c)

SpecIncr == Init /\ [][NextIncr]_vars


(***************************************************************************)
(* Properties.  Log(h) is what handler h's latest question did; its        *)
(* answers are the records the question added to the reply.                *)
(***************************************************************************)
Log(h) == qlog[h]

Answers(h) == SubSeq(response[h].Answer, qlog[h].from + 1, qlog[h].to)

ValidText(text) == ParseIP(text) # NilIP

Invoked(h) == Log(h).ptr # "-" \/ Log(h).fwd # "-"

\* C1: with an empty table and lookups enabled, the reply to a single
\* address question whose upstream resolution succeeds with address a holds
\* exactly the answer (d, A, a, TTL 60), and the table then holds (d, a, 0).
C1_FirstQueryAnswered ==
    \A h \in Handlers :
        (/\ pc[h] = "done"
         /\ Len(request[h].Question) = 1
         /\ Log(h).qtype = "A"
         /\ Log(h).empty
         /\ Log(h).flag1 /\ Log(h).flag2 = "T"
         /\ Log(h).fwd = "ok" /\ ValidText(Log(h).ip))
        => /\ sent[h] = <<[response[h] EXCEPT !.Answer =
                  <<AnswerRecord(Log(h).name, ParseIP(Log(h).ip))>>]>>
           /\ resolutions = <<[domain |-> ToLower(Log(h).name),
                               ip |-> Log(h).ip, query_count |-> 0]>>

\* C2: once a query for a name has been resolved upstream with a valid
\* address and stored, no later address question for the name invokes the
\* resolver, and each of its answers carries the address first resolved.
C2_RepeatQueryHitsCache ==
    \A h \in Handlers :
        (/\ Log(h).done
         /\ Log(h).qtype = "A"
         /\ Log(h).known /\ ValidText(Log(h).first))
        => /\ ~Invoked(h)
           /\ \A i \in 1..Len(Answers(h)) :
                 Answers(h)[i].A = ParseIP(Log(h).first)

\* C3: once a query for one spelling of a name has been resolved and
\* stored, an address question for another spelling of the name finds the
\* row and does not invoke the resolver.
C3_CaseInsensitiveHit ==
    \A h \in Handlers :
        (/\ Log(h).done
         /\ Log(h).qtype = "A"
         /\ Log(h).known /\ ValidText(Log(h).first)
         /\ Log(h).name # Log(h).spelled
         /\ ToLower(Log(h).name) = ToLower(Log(h).spelled))
        => /\ ~Invoked(h)
           /\ Log(h).get1 # "miss" /\ Log(h).get2 # "miss"

\* C4: an address question the handler takes up after the console's
\* disable (and before a later enable) never invokes the resolver and,
\* when its name has no row, gets no answer; one taken up after the
\* console enabled lookups again invokes the resolver when its name has no
\* row.
C4_DisableStopsLookups ==
    \A h \in Handlers :
        Log(h).qtype = "A" =>
            /\ Log(h).phase = 1 =>
                  /\ ~Invoked(h) /\ pc[h] \notin {"ptr", "fwd", "put"}
                  /\ (Log(h).done /\ ~Log(h).incache) => Answers(h) = <<>>
            /\ (Log(h).phase = 2 /\ ~Log(h).incache) =>
                  /\ pc[h] \notin {"loop", "flag2", "get2", "done"}
                        => (pc[h] \in {"get1", "ptr"} \/ Invoked(h))
                  /\ Log(h).done => Log(h).ptr = "ok"

C4_Witness ==
    \E h \in Handlers :
        /\ Log(h).done /\ Log(h).qtype = "A"
        /\ Log(h).phase = 2 /\ ~Log(h).incache
        /\ Log(h).ptr = "ok" /\ Log(h).fwd = "ok"

\* C5: with lookups disabled, an address question whose name has a row
\* with a valid address is answered with that address and TTL 60.
C5_DisabledServesCache ==
    \A h \in Handlers :
        (/\ Log(h).done
         /\ Log(h).qtype = "A"
         /\ ~Log(h).flag1 /\ Log(h).flag2 = "F"
         /\ Log(h).incache /\ ValidText(Log(h).cached))
        => Answers(h) = <<[Name |-> Log(h).name, Rrtype |-> "A",
                           Class |-> "IN", Ttl |-> 60,
                           A |-> ParseIP(Log(h).cached)]>>

C5_Witness ==
    \E h \in Handlers :
        /\ Log(h).done /\ Log(h).qtype = "A"
        /\ ~Log(h).flag1 /\ Log(h).flag2 = "F"
        /\ Log(h).incache /\ ValidText(Log(h).cached)
        /\ Len(Answers(h)) = 1

\* C6: a question of another type than A adds no answer, reads and writes
\* no row and invokes no resolver, whatever the flag.
C6_OtherTypesIgnored ==
    \A h \in Handlers :
        (Log(h).qtype # "-" /\ Log(h).qtype # "A") =>
            /\ Log(h).get1 = "-" /\ Log(h).get2 = "-"
            /\ Log(h).put = "-"
            /\ ~Invoked(h)
            /\ Log(h).to = Log(h).from
            /\ pc[h] \in {"loop", "flag2", "done"}

C6_Witness ==
    \E h \in Handlers :
        /\ Log(h).done /\ Log(h).qtype = "MX"
        /\ ~Log(h).flag1 /\ Log(h).flag2 = "F"
        /\ Log(h).incache /\ ValidText(Log(h).cached)

\* C7: no answer record of a reply, built or written, carries an address
\* whose text fails to parse as an IP literal.
C7_NoInvalidAddressInReply ==
    \A h \in Handlers :
        /\ \A i \in 1..Len(response[h].Answer) :
              ValidText(IPString(response[h].Answer[i].A))
        /\ \A k \in 1..Len(sent[h]) : \A i \in 1..Len(sent[h][k].Answer) :
              ValidText(IPString(sent[h][k].Answer[i].A))

C7_Witness ==
    \E h \in Handlers :
        /\ pc[h] = "done"
        /\ Log(h).get1 = "hit"
        /\ ~ValidText(Log(h).cached)
        /\ \E i \in 1..Len(request[h].Answer) :
              ~ValidText(IPString(request[h].Answer[i].A))

\* C8: an address question for a name that has a row adds exactly one to
\* the row's query_count, is answered with the row's address and invokes
\* no resolver.
C8_RepeatQueryCounts ==
    \A h \in Handlers :
        (/\ Log(h).done
         /\ Log(h).qtype = "A"
         /\ Log(h).flag1 /\ Log(h).flag2 = "T"
         /\ Log(h).incache /\ ValidText(Log(h).cached))
        => /\ CountOf(resolutions, ToLower(Log(h).name)) = Log(h).count + 1
           /\ Answers(h) = <<AnswerRecord(Log(h).name,
                                          ParseIP(Log(h).cached))>>
           /\ ~Invoked(h)

\* C9: when the upstream resolution of a question fails (an exchange
\* returns an error, or the response holds no address), the process keeps
\* running, the question gets no answer and no row, and the loop goes on.
C9_FailedLookupSkipsQuestion ==
    \A h \in Handlers :
        (Log(h).ptr = "err" \/ Log(h).fwd \in {"err", "none"}) =>
            /\ procState # "fatal"
            /\ pc[h] \in {"flag2", "get2", "loop", "done"}
            /\ Log(h).put = "-"
            /\ Log(h).done => Answers(h) = <<>>

\* C10: handling a request never ends the process: whatever the upstream
\* exchanges return, the process is not terminated by the handler.
C10_HandlerNeverFatal == procState # "fatal"


\* C11: when every caller has run existsInDatabaseIncrementCount for the
\* same domain, absent before the first of them, in any interleaving,
\* exactly one returned existed = false, the others existed = true, none
\* an error, and the table holds one row for the domain whose query_count
\* is the number of callers less one.
C11_IncrementAtomic ==
    (/\ nCalls = Cardinality(Callers)
     /\ \A c \in Callers : calls[c].pc = "returned"
     /\ \A c, d \in Callers : calls[c].domain = calls[d].domain)
    => /\ \A c \in Callers : calls[c].err = "nil"
       /\ Cardinality({c \in Callers : ~calls[c].existed}) = 1
       /\ Len(resolutions) = 1
       /\ resolutions[1].query_count = Cardinality(Callers) - 1

C12_ConcurrentFirstQueries ==
    \A h, g \in Handlers :
        (/\ h # g
         /\ Log(h).qtype = "A" /\ Log(g).qtype = "A"
         /\ Log(h).name = Log(g).name
         /\ ~Log(h).incache /\ ~Log(g).incache)
        => /\ ~(Invoked(h) /\ Invoked(g))
           /\ Log(h).put # "duplicate"


\* C13: a handler writes nothing before the loop over the questions has
\* ended, and then exactly one reply: the request's Id and question
\* section, the reply flag set, and the answers accumulated in the loop.
C13_OneCorrelatedReply ==
    \A h \in Handlers :
        /\ pc[h] # "done" => sent[h] = <<>>
        /\ pc[h] = "done" =>
              /\ qi[h] > Len(request[h].Question)
              /\ sent[h] = <<[Id |-> request[h].Id, Response |-> TRUE,
                              Question |-> request[h].Question,
                              Answer |-> response[h].Answer]>>

\* C14: a question adds at most one answer record to the reply, whatever
\* the console does while the question is handled.
C14_AtMostOneAnswer ==
    \A h \in Handlers :
        Log(h).qtype # "-" => Len(response[h].Answer) - Log(h).from <= 1


\* C15: a question for which a read of the table failed with a storage
\* error gets no answer, its handling does not end the process, and the
\* handler goes on to the reply.
C15_ReadErrorUnanswerable ==
    \A h \in Handlers :
        (Log(h).get1 = "err" \/ Log(h).get2 = "err") =>
            /\ procState # "fatal"
            /\ Len(response[h].Answer) = Log(h).from
            /\ pc[h] \in {"ptr", "fwd", "put", "flag2", "get2", "loop",
                          "done"}

\* C16: when AddToDatabase fails with a storage error after DnsLookup
\* returned a valid address for a name without a row, the question is
\* still answered with that address and the table has no row for the name.
C16_WriteErrorStillAnswers ==
    \A h \in Handlers :
        (/\ Log(h).done
         /\ Log(h).qtype = "A"
         /\ ~Log(h).incache
         /\ Log(h).fwd = "ok" /\ ValidText(Log(h).ip)
         /\ Log(h).put = "storage")
        => /\ Answers(h) = <<AnswerRecord(Log(h).name, ParseIP(Log(h).ip))>>
           /\ ~HasRow(resolutions, ToLower(Log(h).name))


\* C17: AddToDatabase for a domain that has a row fails with a duplicate
\* key error and leaves the table as it was; for a domain without a row it
\* appends (domain, ip, 0) and changes no other row.
C17_PutInsertsOrFails ==
    [][\A h \in Handlers :
          (pc[h] = "put" /\ pc'[h] = "flag2") =>
              LET d == StoreKey(Question(h).Name)
              IN IF \E i \in 1..Len(resolutions) : resolutions[i].domain = d
                 THEN /\ qlog'[h].put = "duplicate"
                      /\ resolutions' = resolutions
                 ELSE /\ qlog'[h].put = "nil"
                      /\ resolutions' =
                            resolutions \o <<[domain |-> d,
                                              ip |-> ipAddress[h],
                                              query_count |-> 0]>>]_vars

C17_Witness ==
    \E h \in Handlers :
        /\ Log(h).put = "duplicate"
        /\ Len(resolutions) = 1
        /\ resolutions[1].domain = Log(h).name
        /\ resolutions[1].ip # Log(h).ip

\* C19: the flag is true at the start, and a step that changes it is the
\* console's disable or enable: it changes nothing of a handler, of a
\* resolution or of the table.
C19_FlagConsoleOnly ==
    /\ enableDNSLookup = TRUE
    /\ [][enableDNSLookup' # enableDNSLookup =>
             /\ UNCHANGED <<resolutions, procState, pc, request, response,
                            qi, respPtr, ipAddress, sent, calls>>
             /\ \/ ~enableDNSLookup' /\ phase' = 1
                \/ enableDNSLookup' /\ phase' = 2]_vars

C19_Witness ==
    \E h \in Handlers :
        /\ pc[h] = "done"
        /\ Log(h).flag1 /\ Log(h).flag2 = "F"
        /\ ~enableDNSLookup

\* C20: while a handler waits for an upstream exchange, the console's dump,
\* disable and enable can each be taken.
C20_ConsoleNeverBlocked ==
    (\E h \in Handlers : pc[h] \in {"ptr", "fwd"}) =>
        /\ ENABLED ConsoleDump
        /\ ENABLED ConsoleDisable
        /\ ENABLED ConsoleEnable

C20_Witness ==
    \E h \in Handlers :
        /\ pc[h] \in {"ptr", "fwd"}
        /\ Log(h).phase = 0 /\ phase = 2


\* C21: every row's domain is in lower case, and no two rows have the same
\* domain.
C21_KeysLowerCased ==
    /\ \A i \in 1..Len(resolutions) :
          resolutions[i].domain = ToLower(resolutions[i].domain)
    /\ \A i, j \in 1..Len(resolutions) :
          resolutions[i].domain = resolutions[j].domain => i = j

\* C22: an address question whose name has a row with a valid address when
\* the handler takes it up gets exactly one answer record, whatever the
\* console does between the handler's reads of the flag.
C22_CachedExactlyOne ==
    \A h \in Handlers :
        (/\ Log(h).done
         /\ Log(h).qtype = "A"
         /\ Log(h).incache /\ ValidText(Log(h).cached))
        => Len(Answers(h)) = 1


\* C23: a question the handler takes up while lookups are disabled writes
\* nothing to the table: every step that changes the table is the
\* AddToDatabase of a question taken up while lookups were enabled.
C23_DisabledNeverWrites ==
    [][resolutions' # resolutions =>
          \E h \in Handlers :
              /\ pc[h] = "put" /\ pc'[h] = "flag2"
              /\ Log(h).phase # 1]_vars

C23_Witness ==
    \E h \in Handlers :
        /\ Log(h).done /\ Log(h).qtype = "A"
        /\ Log(h).phase = 1 /\ phase = 1
        /\ Log(h).get2 = "miss"
        /\ Answers(h) = <<>>
        /\ resolutions = <<>>

\* C25: a row, once in the table, stays with the same domain and the same
\* address in every later state, whatever the handler and the console do
\* and also when the process ends.
C25_EntriesPermanent ==
    [][/\ Len(resolutions') >= Len(resolutions)
       /\ \A i \in 1..Len(resolutions) :
             /\ resolutions'[i].domain = resolutions[i].domain
             /\ resolutions'[i].ip = resolutions[i].ip]_vars

C25_Witness ==
    /\ procState = "exited"
    /\ Len(resolutions) = 2

\* C28: dump and an unrecognised command change neither the flag nor the
\* table; disable leaves the flag false and enable leaves it true, whatever
\* it was, and neither changes the table; none of them changes a handler.
C28_ConsoleOnlyStatedEffect ==
    [][/\ (ConsoleDump \/ ConsoleInvalid) =>
             UNCHANGED <<enableDNSLookup, resolutions>>
       /\ ConsoleDisable => (~enableDNSLookup' /\ UNCHANGED resolutions)
       /\ ConsoleEnable => (enableDNSLookup' /\ UNCHANGED resolutions)
       /\ (ConsoleDump \/ ConsoleInvalid \/ ConsoleDisable \/ ConsoleEnable)
             => UNCHANGED <<procState, pc, request, response, qi, sent>>]_vars

C28_Witness ==
    /\ phase = 2 /\ enableDNSLookup
    /\ Len(resolutions) = 1
    /\ \E h \in Handlers : pc[h] = "flag2" /\ Log(h).phase = 1


Rank(p) ==
    CASE p = "loop" -> 0
      [] p = "get1" -> 1
      [] p = "ptr" -> 2
      [] p = "fwd" -> 3
      [] p = "put" -> 4
      [] p = "flag2" -> 5
      [] p = "get2" -> 6
      [] OTHER -> 7

\* C26: within one question the handler only moves forward through type
\* test, table read, one lookup and the second branch, so the question
\* ends after at most seven steps and DnsLookup runs at most once; a lookup
\* that fails ends the question without an answer.
C26_NoRetry ==
    /\ [][\A h \in Handlers :
             (/\ pc'[h] # pc[h]
              /\ qi'[h] = qi[h]
              /\ request'[h].Id = request[h].Id)
             => Rank(pc'[h]) > Rank(pc[h])]_vars
    /\ [](\A h \in Handlers :
             (Log(h).done /\ Log(h).fwd = "none") =>
                 /\ Answers(h) = <<>>
                 /\ Log(h).put = "-")

C26_Witness ==
    \E h \in Handlers :
        /\ Log(h).done /\ Log(h).qtype = "A"
        /\ Log(h).ptr = "ok" /\ Log(h).fwd = "none"
        /\ Answers(h) = <<>>
        /\ qi[h] = 3

\* C27: the only upstream exchange made for a question is the A query for
\* its name: no handler runs or has run the PTR exchange.
C27_OnlyForwardExchange ==
    \A h \in Handlers :
        /\ pc[h] # "ptr"
        /\ Log(h).ptr = "-"

=============================================================================
